---- MODULE Spec2Model ----
(***************************************************************************)
(* A model of feature_selector.py: the univariate dispatchers (chisquare,  *)
(* infogain, mann_whitney_u, ttest) with their worker pool and shared      *)
(* handles, the adaptive LASSO alpha search, frequency_mask, and           *)
(* FeatureSelector.bootstrapped_feat_select with its aggregation.          *)
(***************************************************************************)
EXTENDS Integers, Sequences, FiniteSets, TLC

(***************************************************************************)
(* Bounds of the model.                                                    *)
(***************************************************************************)
\* longest list of feature columns handed to one dispatch
MaxFeatures == 3
\* number of worker processes of the pool (Pool() takes the cpu count)
NumWorkers == 2
\* most per-bootstrap scores of one (feature, method) pair the aggregator folds
MaxScores == 4
\* largest frequency, row count and threshold handed to frequency_mask alone
MaxCount == 2
\* most bootstraps of one run of bootstrapped_feat_select
MaxBootstraps == 2
\* most subjects (rows) of the sample one worker task scores
MaxRows == 3
\* most dispatches the caller makes one after the other
MaxDispatches == 2

\* the doubles of the program (alpha = 1, alpha_change = 0.5 and their sums):
\* significant bits, exponent of the smallest and of the largest power of two
MantissaBits == 53

MinExponent == -1074

MaxExponent == 1023

\* the default of lasso for n_selected_features
DefaultTarget == 50

\* the missing value of a score cell (numpy.nan)
NaN == -1

\* the default None of k_best and n_samples
None == -2

\* the feature column labels (SNP ids) of the datasets of the model
FeatureIds == <<"A", "B", "C", "D">>

Range(s) == {s[i] : i \in DOMAIN s}

Min2(a, b) == IF a <= b THEN a ELSE b

VARIABLES
    \* ---- one univariate dispatch (chisquare/infogain/mann_whitney_u/ttest)
    d_pc,               \* position of the parent in the dispatcher
    d_method,           \* the name the dispatcher puts in args[3]
    correction,         \* kwargs['correction'], 'fdr' by default
    individual_args,    \* the feature ids, one task each, in column order
    shared_snp_data,    \* state of the SharedPandasDataFrame handle
    shared_target_arr,  \* state of the SharedNumpyArray handle
    task,               \* position of every worker task
    pool_value,         \* the result slots pool.map fills, by task index
    completion,         \* task indices in order of completion
    results,            \* what pool.map returned to the parent
    out_file,           \* the table df.to_csv wrote, <<>> while there is none
    out_columns,        \* the column labels of that table
    handles_made,       \* how many pairs of shared handles were constructed
    args_handle,        \* for every task, which pair its args[1], args[2] are
    processes,          \* the number of worker processes of the pool
    \* ---- one call of lasso
    l_pc,               \* position in lasso
    outcome,            \* kwargs['outcome'], "missing" when the key is absent
    n_selected_features,\* kwargs['n_selected_features']
    tolerance,          \* kwargs['tolerance'], a double
    n_upper,            \* a double
    n_lower,            \* a double
    n_columns,          \* number of feature columns of the sample
    alpha,              \* a double
    alpha_change,       \* a double
    first_ascent,
    selected_len,
    lasso_file,         \* TRUE once lasso wrote its table
    resumed,            \* history: alpha was raised after it had been lowered
    full_below,         \* the sample: below this alpha the fit keeps every column
    none_from,          \* the sample: from this alpha on the fit keeps no column
    \* ---- frequency_mask applied, and applied again to its own result
    m_pc,
    m_columns,          \* the feature columns of the data frame handed in
    m_total,            \* len(data)
    m_threshold,
    m_freq_map,
    m_first,            \* outcome of the first application
    m_second,           \* outcome of the application to the first result
    \* ---- the aggregation of one (feature, method) pair
    a_pc,
    a_name,             \* the selector name
    a_scores,           \* the score cells of the bootstraps, NaN when missing
    a_k_best,
    a_total,            \* the cell total_<name>_<k_best>_best
    a_nan,              \* the cell nan_<name>
    \* ---- one call of FeatureSelector.bootstrapped_feat_select
    r_pc,
    error,              \* which exception ended the call, "none" while none
    data,               \* self.data: rows of ID_1 and genotypes
    freq_threshold,
    n_bootstraps,
    n_samples,
    selector_names,
    selector_kwargs,
    k_best,
    replay,             \* TRUE when the argument bootstraps is not None
    bootstraps,         \* the supplied id lists
    library,            \* the numbers the libraries return on the data of the run
    freq_map,
    boot_i,             \* i of the outer loop
    sel_j,              \* j of the inner loop
    this_sample,        \* its rows, and its feature columns after the mask
    bootstrap_export,
    folders,            \* the selector folders made
    files,              \* the per-bootstrap score files, in filenames order
    final,              \* the table final, in memory
    final_written,      \* final.to_csv has run
    bootstraps_file,    \* the columns of the reproducibility table
    bootstraps_written, \* bootstrap_df.to_csv has run
    \* ---- one call of fs_wrapper for mwu or ttest
    s_pc,
    s_method,           \* args[3]
    s_column,           \* data[args[0]]: the genotype codes of the feature
    s_target,           \* target, one value per subject
    s_result            \* the groups handed to the test, or the NaN result

dispVars == <<d_pc, d_method, correction, individual_args, shared_snp_data,
              shared_target_arr, task, pool_value, completion, results, out_file,
              out_columns, handles_made, args_handle, processes>>

lassoVars == <<l_pc, outcome, n_selected_features, tolerance, n_upper, n_lower,
               n_columns, alpha,
               alpha_change, first_ascent, selected_len, lasso_file, resumed,
               full_below, none_from>>

maskVars == <<m_pc, m_columns, m_total, m_threshold, m_freq_map, m_first, m_second>>

aggVars == <<a_pc, a_name, a_scores, a_k_best, a_total, a_nan>>

inputVars == <<data, freq_threshold, n_bootstraps, n_samples, selector_names,
               selector_kwargs, k_best, replay, bootstraps, library,
               freq_map>>

outputVars == <<folders, files, final, final_written, bootstraps_file,
                bootstraps_written>>

runVars == <<r_pc, error, inputVars, boot_i, sel_j, this_sample,
             bootstrap_export, outputVars>>

scoreVars == <<s_pc, s_method, s_column, s_target, s_result>>

vars == <<dispVars, lassoVars, maskVars, aggVars, runVars, scoreVars>>

notDisp == <<lassoVars, maskVars, aggVars, runVars, scoreVars>>

notLasso == <<dispVars, maskVars, aggVars, runVars, scoreVars>>

notMask == <<dispVars, lassoVars, aggVars, runVars, scoreVars>>

notAgg == <<dispVars, lassoVars, maskVars, runVars, scoreVars>>

notRun == <<dispVars, lassoVars, maskVars, aggVars, scoreVars>>

notScore == <<dispVars, lassoVars, maskVars, aggVars, runVars>>

\* no call of lasso is under way
LassoIdle ==
    /\ l_pc = "idle"
    /\ outcome = "missing"
    /\ n_selected_features = 0
    /\ tolerance = [sign |-> 1, kind |-> "fin", top |-> 0, bits |-> {}]
    /\ n_upper = [sign |-> 1, kind |-> "fin", top |-> 0, bits |-> {}]
    /\ n_lower = [sign |-> 1, kind |-> "fin", top |-> 0, bits |-> {}]
    /\ n_columns = 0
    /\ alpha = [sign |-> 1, kind |-> "fin", top |-> 0, bits |-> {}]
    /\ alpha_change = [sign |-> 1, kind |-> "fin", top |-> 0, bits |-> {}]
    /\ first_ascent = TRUE
    /\ selected_len = -1
    /\ lasso_file = FALSE
    /\ resumed = FALSE
    /\ full_below = [sign |-> 1, kind |-> "fin", top |-> 0, bits |-> {}]
    /\ none_from = [sign |-> 1, kind |-> "fin", top |-> 0, bits |-> {}]

(***************************************************************************)
(* Univariate dispatch: fs_wrapper and its four callers.                   *)
(***************************************************************************)
UnivariateMethods == {"chi2", "infogain", "mwu", "ttest"}

\* the column orders only_snp_data can have: lists of distinct feature ids
ColumnLists ==
    {s \in UNION {[1..n -> Range(FeatureIds)] : n \in 1..MaxFeatures} :
        \A i, j \in DOMAIN s : i # j => s[i] # s[j]}

NoResult == [snp |-> "None", ok |-> FALSE]

\* what fs_wrapper returns for args[0] = snp: (result, args[0], frequency)
WrapperResult(snp) == [snp |-> snp, ok |-> TRUE]

\* pool.map(fs_wrapper, individual_args) without a chunksize: the pool cuts
\* the task list in chunks of ceil(len / (4 * pool size)) tasks
ChunkSize(n, procs) ==
    IF n % (4 * procs) > 0 THEN n \div (4 * procs) + 1 ELSE n \div (4 * procs)

\* the chunk task i is in, and the tasks of chunk c, for chunks of size tasks
ChunkOf(i, size) == (i - 1) \div size

ChunkTasks(t, c, size) == {i \in DOMAIN t : ChunkOf(i, size) = c}

\* the outcomes of a task: it returned, it raised, or it was never run
\* because an earlier task of its chunk raised
Outcomes == {"returned", "raised", "skipped"}

\* the chunks workers hold once chunk c is taken: the pool hands the chunks
\* out first in, first out, so these are c and the chunks before it that
\* are not through (a worker that took a chunk may not have begun to read)
Running(t, c, size) ==
    {b \in 0..c : \E i \in ChunkTasks(t, b, size) : t[i] \notin Outcomes}

\* a mutant of Finished: the parent goes on as soon as one task is done
FirstFinished(t) == \E i \in DOMAIN t : t[i] \in Outcomes

\* pool.map blocks the parent until every chunk is through: every task has
\* returned, raised, or was dropped with its chunk
Finished(t) == \A i \in DOMAIN t : t[i] \in Outcomes

\* a pool of one worker gets more than 4 tasks: chunks of two
ManyFeatures == <<"A", "B", "C", "D", "E">>

\* the inputs of a dispatch: the column list and the cpu count Pool() takes
DispatchInputs ==
    {[cols |-> c, procs |-> NumWorkers] : c \in ColumnLists}
    \cup {[cols |-> ManyFeatures, procs |-> 1]}

\* a mutant of SetResult: the result of the last task is never stored
SetResultDropLast(value, i, r) ==
    IF i = Len(value) /\ i > 1 THEN value ELSE [value EXCEPT ![i] = r]

\* pool.map: the result of task i is stored at index i of the list it returns
SetResult(value, i, r) == [value EXCEPT ![i] = r]

\* a mutant of MapFailed: a raising task is ignored
MapNeverFailed(t) == FALSE

\* pool.map re-raises in the parent when any task raised
MapFailed(t) == \E i \in DOMAIN t : t[i] = "raised"

\* mann_whitney_u calls fdr_correction, a name the module never imports
UsesUndefinedName(m, c) == m = "mwu" /\ c = "fdr"

\* the SNP column of the table the dispatcher builds from results
SnpColumn(res) == [i \in DOMAIN res |-> res[i].snp]

\* chisquare / infogain / mann_whitney_u / ttest up to the call of pool.map
StartDispatch ==
    /\ d_pc = "idle"
    /\ handles_made < MaxDispatches
    /\ \E m \in UnivariateMethods, c \in {"fdr", "bonferroni"}, inp \in DispatchInputs :
        /\ d_method' = m
        /\ correction' = c
        /\ individual_args' = inp.cols
        /\ processes' = inp.procs
        /\ task' = [i \in DOMAIN inp.cols |-> "queued"]
        /\ pool_value' = [i \in DOMAIN inp.cols |-> NoResult]
        /\ args_handle' = [i \in DOMAIN inp.cols |-> handles_made + 1]
    /\ handles_made' = handles_made + 1
    /\ shared_snp_data' = "live"
    /\ shared_target_arr' = "live"
    /\ completion' = <<>>
    /\ results' = <<>>
    /\ out_file' = <<>>
    /\ out_columns' = {}
    /\ d_pc' = "map"
    /\ UNCHANGED notDisp

\* fs_wrapper, data = args[1].read(): a free worker takes a chunk and begins
\* its first task, or the worker of the chunk goes on to its next task
TaskReadData(i) ==
    /\ d_pc = "map"
    /\ task[i] = "queued"
    /\ LET size == ChunkSize(Len(task), processes)
       IN  IF i - 1 \in ChunkTasks(task, ChunkOf(i, size), size)
           THEN task[i - 1] = "returned"
           ELSE Cardinality(Running(task, ChunkOf(i, size), size)) <= processes
    /\ task' = [task EXCEPT ![i] = "read_data"]
    /\ UNCHANGED <<d_pc, d_method, correction, individual_args, shared_snp_data,
                   shared_target_arr, pool_value, completion, results, out_file,
                   out_columns, handles_made, args_handle, processes>>
    /\ UNCHANGED notDisp

\* fs_wrapper, target = args[2].read()
TaskReadTarget(i) ==
    /\ d_pc = "map"
    /\ task[i] = "read_data"
    /\ task' = [task EXCEPT ![i] = "read_target"]
    /\ UNCHANGED <<d_pc, d_method, correction, individual_args, shared_snp_data,
                   shared_target_arr, pool_value, completion, results, out_file,
                   out_columns, handles_made, args_handle, processes>>
    /\ UNCHANGED notDisp

\* fs_wrapper scores its feature and returns; the pool stores the result
TaskReturn(i) ==
    /\ d_pc = "map"
    /\ task[i] = "read_target"
    /\ task' = [task EXCEPT ![i] = "returned"]
    /\ pool_value' = SetResult(pool_value, i, WrapperResult(individual_args[i]))
    /\ completion' = Append(completion, i)
    /\ UNCHANGED <<d_pc, d_method, correction, individual_args, shared_snp_data,
                   shared_target_arr, results, out_file,
                   out_columns, handles_made, args_handle, processes>>
    /\ UNCHANGED notDisp

\* fs_wrapper raises (the scorer rejects the column, memory runs out): the
\* exception ends the chunk, and the tasks after i in it are never run
TaskRaise(i) ==
    /\ d_pc = "map"
    /\ task[i] = "read_target"
    /\ LET size == ChunkSize(Len(task), processes)
       IN  task' = [j \in DOMAIN task |->
                     IF j = i THEN "raised"
                     ELSE IF j > i /\ ChunkOf(j, size) = ChunkOf(i, size)
                          THEN "skipped"
                          ELSE task[j]]
    /\ completion' = Append(completion, i)
    /\ UNCHANGED <<d_pc, d_method, correction, individual_args, shared_snp_data,
                   shared_target_arr, pool_value, results, out_file,
                   out_columns, handles_made, args_handle, processes>>
    /\ UNCHANGED notDisp

\* pool.map returns the value list once every task is done and none raised
PoolMapReturn ==
    /\ d_pc = "map"
    /\ Finished(task)
    /\ ~MapFailed(task)
    /\ results' = pool_value
    /\ d_pc' = "unlink_snp"
    /\ UNCHANGED <<d_method, correction, individual_args, shared_snp_data,
                   shared_target_arr, task, pool_value, completion, out_file,
                   out_columns, handles_made, args_handle, processes>>
    /\ UNCHANGED notDisp

\* pool.map raises the task's exception in the parent: the dispatcher has no
\* try/finally, so the exception leaves it at once
PoolMapRaise ==
    /\ d_pc = "map"
    /\ Finished(task)
    /\ MapFailed(task)
    /\ d_pc' = "raised"
    /\ UNCHANGED <<d_method, correction, individual_args, shared_snp_data,
                   shared_target_arr, task, pool_value, completion, results, out_file,
                   out_columns, handles_made, args_handle, processes>>
    /\ UNCHANGED notDisp

\* shared_snp_data.unlink()
UnlinkSnp ==
    /\ d_pc = "unlink_snp"
    /\ shared_snp_data' = "unlinked"
    /\ d_pc' = "unlink_target"
    /\ UNCHANGED <<d_method, correction, individual_args, shared_target_arr,
                   task, pool_value, completion, results, out_file,
                   out_columns, handles_made, args_handle, processes>>
    /\ UNCHANGED notDisp

\* shared_target_arr.unlink()
UnlinkTarget ==
    /\ d_pc = "unlink_target"
    /\ shared_target_arr' = "unlinked"
    /\ d_pc' = "table"
    /\ UNCHANGED <<d_method, correction, individual_args, shared_snp_data,
                   task, pool_value, completion, results, out_file,
                   out_columns, handles_made, args_handle, processes>>
    /\ UNCHANGED notDisp

\* the score columns of the table each selector builds
ScoreColumns(name) ==
    IF name = "chi2" THEN {"chi2_score", "p_val"}
    ELSE IF name = "infogain" THEN {"infogain_score"}
    ELSE IF name = "mwu" THEN {"mwu_1", "mwu_2", "mwu_score", "p_val"}
    ELSE IF name = "ttest" THEN {"t_statistic", "ttest_score", "p_val"}
    ELSE IF name = "lasso" THEN {"lasso_coeff", "lasso_score"}
    ELSE {name \o "_score"}

\* the selectors that read kwargs['correction'] and end with
\* `if correction == 'fdr': df['adjusted_p_val'] = ...`
CorrectsPValues(name) == name \in {"chi2", "mwu", "ttest"}

\* the selectors that put the column frequency in their table
HasFrequency(name) == name \in {"chi2", "infogain", "mwu", "ttest"}

\* the column labels of the table a selector hands to df.to_csv
TableColumns(name, c) ==
    {"SNP"} \cup ScoreColumns(name)
    \cup (IF CorrectsPValues(name) /\ c = "fdr" THEN {"adjusted_p_val"} ELSE {})
    \cup (IF HasFrequency(name) THEN {"frequency"} ELSE {})

\* the dispatcher builds the table from results and writes it with to_csv
WriteTable ==
    /\ d_pc = "table"
    /\ ~UsesUndefinedName(d_method, correction)
    /\ out_file' = SnpColumn(results)
    /\ out_columns' = TableColumns(d_method, correction)
    /\ d_pc' = "written"
    /\ UNCHANGED <<d_method, correction, individual_args, shared_snp_data,
                   shared_target_arr, task, pool_value, completion, results,
                   handles_made, args_handle, processes>>
    /\ UNCHANGED notDisp

\* mann_whitney_u with correction 'fdr': NameError before to_csv
TableRaise ==
    /\ d_pc = "table"
    /\ UsesUndefinedName(d_method, correction)
    /\ d_pc' = "raised"
    /\ UNCHANGED <<d_method, correction, individual_args, shared_snp_data,
                   shared_target_arr, task, pool_value, completion, results, out_file,
                   out_columns, handles_made, args_handle, processes>>
    /\ UNCHANGED notDisp

DispatchIdle ==
    /\ d_pc = "idle"
    /\ d_method = "chi2"
    /\ correction = "fdr"
    /\ individual_args = <<>>
    /\ shared_snp_data = "none"
    /\ shared_target_arr = "none"
    /\ task = <<>>
    /\ pool_value = <<>>
    /\ completion = <<>>
    /\ results = <<>>
    /\ out_file = <<>>
    /\ out_columns = {}
    /\ handles_made = 0
    /\ args_handle = <<>>
    /\ processes = 0

\* the dispatcher has returned or raised; the caller may dispatch again
DispatchExit ==
    /\ d_pc \in {"written", "raised"}
    /\ d_pc' = "idle"
    /\ d_method' = "chi2"
    /\ correction' = "fdr"
    /\ individual_args' = <<>>
    /\ shared_snp_data' = "none"
    /\ shared_target_arr' = "none"
    /\ task' = <<>>
    /\ pool_value' = <<>>
    /\ completion' = <<>>
    /\ results' = <<>>
    /\ out_file' = <<>>
    /\ out_columns' = {}
    /\ args_handle' = <<>>
    /\ processes' = 0
    /\ UNCHANGED handles_made
    /\ UNCHANGED notDisp

DispatchNext ==
    \/ StartDispatch
    \/ \E i \in DOMAIN task : TaskReadData(i)
    \/ \E i \in DOMAIN task : TaskReadTarget(i)
    \/ \E i \in DOMAIN task : TaskReturn(i)
    \/ \E i \in DOMAIN task : TaskRaise(i)
    \/ PoolMapReturn
    \/ PoolMapRaise
    \/ UnlinkSnp
    \/ UnlinkTarget
    \/ WriteTable
    \/ TableRaise
    \/ DispatchExit

\* frequency_mask is not being applied
MaskIdle ==
    /\ m_pc = "idle"
    /\ m_columns = <<>>
    /\ m_total = 0
    /\ m_threshold = 0
    /\ m_freq_map = <<>>
    /\ m_first = [ok |-> TRUE, columns |-> <<>>]
    /\ m_second = [ok |-> TRUE, columns |-> <<>>]

\* no pair is being aggregated
AggIdle ==
    /\ a_pc = "idle"
    /\ a_name = "chi2"
    /\ a_scores = <<>>
    /\ a_k_best = 0
    /\ a_total = 0
    /\ a_nan = 0

\* final before any row is put in it
EmptyFinal == [SNP |-> <<>>, frequency |-> <<>>, total |-> <<>>, nan |-> <<>>]

\* bootstrapped_feat_select is not running and has written nothing
RunIdle ==
    /\ r_pc = "idle"
    /\ error = "none"
    /\ data = <<>>
    /\ freq_threshold = 0
    /\ n_bootstraps = 0
    /\ n_samples = None
    /\ selector_names = <<>>
    /\ selector_kwargs = <<>>
    /\ k_best = None
    /\ replay = FALSE
    /\ bootstraps = <<>>
    /\ library = {}
    /\ freq_map = <<>>
    /\ boot_i = 0
    /\ sel_j = 0
    /\ this_sample = [rows |-> <<>>, columns |-> <<>>]
    /\ bootstrap_export = <<>>
    /\ folders = {}
    /\ files = <<>>
    /\ final = EmptyFinal
    /\ final_written = FALSE
    /\ bootstraps_file = <<>>
    /\ bootstraps_written = FALSE

\* the result of fs_wrapper when a group is empty: every score and p_val NaN
NanResult == [nan |-> TRUE, x |-> <<>>, y |-> <<>>]

\* no worker task is scoring
ScoreIdle ==
    /\ s_pc = "idle"
    /\ s_method = "mwu"
    /\ s_column = <<>>
    /\ s_target = <<>>
    /\ s_result = NanResult

\* the state after construction: no call is under way
Init == DispatchIdle /\ LassoIdle /\ MaskIdle /\ AggIdle /\ RunIdle /\ ScoreIdle

SpecDispatch == Init /\ [][DispatchNext]_vars

\* how often feature id f occurs in a list of feature ids
Occurrences(col, f) == Cardinality({k \in DOMAIN col : col[k] = f})

\* C1: once pool.map has returned, the collected results (and the table
\* written from them) hold every feature id of the input list exactly once,
\* whatever the order in which the tasks completed.
C1_EveryFeatureOnce ==
    /\ d_pc \in {"unlink_snp", "unlink_target", "table", "written"} =>
          /\ Len(results) = Len(individual_args)
          /\ \A f \in Range(individual_args) : Occurrences(SnpColumn(results), f) = 1
    /\ d_pc = "written" =>
          /\ Len(out_file) = Len(individual_args)
          /\ \A f \in Range(individual_args) : Occurrences(out_file, f) = 1

\* a table over three features was written although the tasks completed in
\* an order other than the input order
C1_Witness ==
    /\ d_pc = "written"
    /\ Len(individual_args) = 3
    /\ completion = <<2, 1, 3>>

\* C2: a dispatch that has ended, by returning or by raising, has unlinked
\* both shared handles it created.
C2_HandlesReleased ==
    d_pc \in {"written", "raised"} =>
        /\ shared_snp_data = "unlinked"
        /\ shared_target_arr = "unlinked"

\* C3: once a task has raised no result list reaches the dispatcher and no
\* table is written, and when the pool has drained the call raises.
C3_Inv ==
    (\E i \in DOMAIN task : task[i] = "raised") =>
        /\ d_pc \in {"map", "raised"}
        /\ results = <<>>
        /\ out_file = <<>>

C3_Step ==
    (/\ d_pc = "map"
     /\ \A i \in DOMAIN task : task[i] \in {"returned", "raised", "skipped"}
     /\ \E i \in DOMAIN task : task[i] = "raised") => d_pc' = "raised"

\* C3: a raising task aborts the whole dispatch: the error reaches the
\* caller and no score table is produced, not even for the tasks that
\* succeeded.
C3_TaskErrorAborts == []C3_Inv /\ [][C3_Step]_vars

\* the dispatch raised after one task raised and another had succeeded
C3_Witness ==
    /\ d_pc = "raised"
    /\ \E i \in DOMAIN task : task[i] = "raised"
    /\ \E i \in DOMAIN task : task[i] = "returned"

\* C12: with the default correction 'fdr' the table of chi2, mwu and ttest
\* is written with the column adjusted_p_val, the tables of infogain, lasso,
\* mrmr and jmi have no such column, and a dispatch whose tasks all returned
\* does not fail: the correction step raises nothing.
C12_CorrectedAndNeverFails ==
    /\ (d_pc = "written" /\ correction = "fdr") =>
          ("adjusted_p_val" \in out_columns <=> d_method \in {"chi2", "mwu", "ttest"})
    /\ \A name \in {"lasso", "mrmr", "jmi"} :
          "adjusted_p_val" \notin TableColumns(name, "fdr")
    /\ d_pc = "raised" => \E i \in DOMAIN task : task[i] = "raised"

\* C16: a task that is at one of its read() calls finds both handles
\* live; a handle is unlinked only when every task of the dispatch has
\* returned; and the handles in the args of every task are the pair its own
\* dispatch constructed, never the pair of an earlier dispatch.
C16_NoReadAfterUnlink ==
    /\ \A i \in DOMAIN task :
          task[i] \in {"read_data", "read_target"} =>
              (shared_snp_data = "live" /\ shared_target_arr = "live")
    /\ (shared_snp_data = "unlinked" \/ shared_target_arr = "unlinked") =>
          \A i \in DOMAIN task : task[i] = "returned"
    /\ \A i \in DOMAIN args_handle : args_handle[i] = handles_made

\* in the second dispatch the feature-matrix handle has been unlinked after
\* both tasks returned, the second before the first
C16_Witness ==
    /\ handles_made = 2
    /\ d_pc = "unlink_target"
    /\ shared_snp_data = "unlinked"
    /\ completion = <<2, 1>>
    /\ \A i \in DOMAIN task : task[i] = "returned" /\ args_handle[i] = 2

(***************************************************************************)
(* fs_wrapper: the mwu and ttest branches of one worker task.              *)
(***************************************************************************)
\* the genotype codes of a feature column
GenotypeCodes == {0, 1, 2}

\* the values of the target column
TargetValues == {0, 1}

RECURSIVE GroupOf(_, _, _)
\* target[np.where(data[args[0]] == v)]: the target values of the subjects
\* whose genotype code is v, in row order
GroupOf(column, target, v) ==
    IF column = <<>> THEN <<>>
    ELSE (IF column[1] = v THEN <<target[1]>> ELSE <<>>)
         \o GroupOf(Tail(column), Tail(target), v)

\* the mwu / ttest branch: NaN for every score and p_val when zero_vector or
\* one_vector is empty, else the test of the library on (x, y)
GroupTest(column, target) ==
    LET zero_vector == GroupOf(column, target, 0)
        one_vector == GroupOf(column, target, 1)
    IN IF Len(zero_vector) = 0 \/ Len(one_vector) = 0
       THEN NanResult
       ELSE [nan |-> FALSE, x |-> zero_vector, y |-> one_vector]

\* fs_wrapper(args) with args[3] 'mwu' or 'ttest', from the reads to return
ScoreFeature ==
    /\ s_pc = "idle"
    /\ \E m \in {"mwu", "ttest"}, n \in 1..MaxRows :
        \E column \in [1..n -> GenotypeCodes], target \in [1..n -> TargetValues] :
            /\ s_method' = m
            /\ s_column' = column
            /\ s_target' = target
            /\ s_result' = GroupTest(column, target)
    /\ s_pc' = "scored"
    /\ UNCHANGED notScore

\* the task has returned; the worker takes the next task
ScoreExit ==
    /\ s_pc = "scored"
    /\ s_pc' = "idle"
    /\ s_method' = "mwu"
    /\ s_column' = <<>>
    /\ s_target' = <<>>
    /\ s_result' = NanResult
    /\ UNCHANGED notScore

ScoreNext == ScoreFeature \/ ScoreExit

SpecScore == Init /\ [][ScoreNext]_vars

\* the rows of a column whose genotype code is in the set codes
RowsWith(column, codes) == {i \in DOMAIN column : column[i] \in codes}

\* the target values of the rows R, in row order
TargetsOf(target, R) ==
    LET F[i \in 0..Len(target)] ==
            IF i = 0 THEN <<>>
            ELSE IF i \in R THEN Append(F[i - 1], target[i]) ELSE F[i - 1]
    IN F[Len(target)]

\* C11: mwu and ttest compare the subjects with genotype 0 with the
\* subjects with a non-zero genotype; the result is NaN exactly when one of
\* the two groups is empty, and otherwise the test is computed over all
\* subjects, for genotype codes in {0, 1, 2}.
C11_ZeroAgainstNonZero ==
    s_pc = "scored" =>
        LET zeros == RowsWith(s_column, {0})
            nonzeros == RowsWith(s_column, GenotypeCodes \ {0})
        IN /\ s_result.nan <=> (zeros = {} \/ nonzeros = {})
           /\ ~s_result.nan =>
                 /\ s_result.x = TargetsOf(s_target, zeros)
                 /\ s_result.y = TargetsOf(s_target, nonzeros)
                 /\ Len(s_result.x) + Len(s_result.y) = Len(s_column)

(***************************************************************************)
(* lasso: the adaptive search of the L1 penalty alpha.                     *)
(*                                                                         *)
(* alpha and alpha_change are Python floats, IEEE-754 doubles.  A double   *)
(* is kept here as a record: its sign, its kind ("fin" for a finite       *)
(* number, "inf", "nan") and, for a finite number, the set of the         *)
(* exponents of the powers of two that add up to its magnitude: 1.0 is    *)
(* {0}, 0.5 is {-1}, 1.75 is {0, -1, -2}, 0.0 is {}.                       *)
(***************************************************************************)
RECURSIVE TopFrom(_, _)
\* the highest exponent of the magnitude S # {}, looked for from p downwards
TopFrom(S, p) == IF p \in S THEN p ELSE TopFrom(S, p - 1)

\* a finite double of sign s and magnitude S, whose highest exponent is top
Fin(s, S, top) == [sign |-> s, kind |-> "fin", top |-> top, bits |-> S]

Inf(s) == [sign |-> s, kind |-> "inf", top |-> 0, bits |-> {}]

FloatNaN == [sign |-> 1, kind |-> "nan", top |-> 0, bits |-> {}]

Zero == Fin(1, {}, 0)

Half == Fin(1, {-1}, -1)

One == Fin(1, {0}, 0)

Two == Fin(1, {1}, 1)

\* the smallest double above zero
Tiny == Fin(1, {MinExponent}, MinExponent)

RECURSIVE AddBit(_, _)
\* the exact sum S + 2^k: the carry runs up while the bit is taken
AddBit(S, k) == IF k \in S THEN AddBit(S \ {k}, k + 1) ELSE S \cup {k}

\* the exact sum of two magnitudes.  For a T of several powers of two the
\* carry into 2^p comes from a power q < p that both hold and runs through
\* the powers between them as long as one of the two holds each
AddBits(S, T) ==
    IF T = {} THEN S
    ELSE IF Cardinality(T) = 1 THEN AddBit(S, CHOOSE q \in T : TRUE)
    ELSE LET U == S \cup T
             Carry(p) == \E q \in S \cap T :
                             q < p /\ \A r \in (q + 1)..(p - 1) : r \in U
         IN  {p \in U \cup {q + 1 : q \in U} :
                ((p \in S) # (p \in T)) # Carry(p)}

\* the lowest exponent of S above k
BorrowFrom(S, k) ==
    LET T == {q \in S : q > k} IN CHOOSE q \in T : \A r \in T : q <= r

\* the exact difference S - 2^k, for S >= 2^k: the borrow comes from the
\* next higher bit of S
SubBit(S, k) ==
    IF k \in S THEN S \ {k}
    ELSE LET p == BorrowFrom(S, k) IN (S \ {p}) \cup (k..(p - 1))

\* the exact difference of two magnitudes, for S >= T.  For a T of several
\* powers of two the borrow from 2^p comes from a power q < p that only T
\* holds and runs through the powers between them unless only S holds one
SubBits(S, T) ==
    IF T = {} THEN S
    ELSE IF Cardinality(T) = 1 THEN SubBit(S, CHOOSE q \in T : TRUE)
    ELSE LET U == S \cup T
             lo == CHOOSE q \in U : \A r \in U : q <= r
             hi == CHOOSE q \in U : \A r \in U : q >= r
             Borrow(p) == \E q \in T \ S :
                              q < p /\ \A r \in (q + 1)..(p - 1) : r \notin S \ T
         IN  {p \in lo..hi : ((p \in S) # (p \in T)) # Borrow(p)}

\* a < b for the magnitudes of two finite doubles: the highest bit in which
\* they differ is in b
LessBits(a, b) ==
    /\ a.bits # b.bits
    /\ IF a.bits = {} THEN TRUE
       ELSE IF b.bits = {} THEN FALSE
       ELSE IF a.top # b.top THEN a.top < b.top
       ELSE TopFrom((a.bits \ b.bits) \cup (b.bits \ a.bits), a.top) \in b.bits

\* the double nearest to the exact magnitude S, which has no exponent above
\* hint, ties to the even mantissa: MantissaBits significant bits, none
\* below 2^MinExponent, and infinity above the largest finite double
Round(s, S, hint) ==
    IF S = {} THEN Zero
    ELSE LET top  == TopFrom(S, hint)
             low  == IF top - (MantissaBits - 1) > MinExponent
                     THEN top - (MantissaBits - 1) ELSE MinExponent
             keep == {p \in S : p >= low}
             rest == S \ keep
             up   == /\ low - 1 \in rest
                     /\ (rest # {low - 1} \/ low \in keep)
             r    == IF up THEN AddBit(keep, low) ELSE keep
         IN  IF r = {} THEN Zero
             ELSE IF TopFrom(r, top + 1) > MaxExponent THEN Inf(s)
             ELSE Fin(s, r, TopFrom(r, top + 1))

\* the double a + b of two doubles
FAdd(a, b) ==
    IF a.kind = "nan" \/ b.kind = "nan" THEN FloatNaN
    ELSE IF a.kind = "inf" /\ b.kind = "inf"
         THEN IF a.sign = b.sign THEN a ELSE FloatNaN
    ELSE IF a.kind = "inf" THEN a
    ELSE IF b.kind = "inf" THEN b
    ELSE IF a.bits = {} THEN b
    ELSE IF b.bits = {} THEN a
    ELSE IF a.sign = b.sign
         THEN Round(a.sign, AddBits(a.bits, b.bits),
                    (IF a.top >= b.top THEN a.top ELSE b.top) + 1)
    ELSE IF LessBits(a, b) THEN Round(b.sign, SubBits(b.bits, a.bits), b.top)
    ELSE Round(a.sign, SubBits(a.bits, b.bits), a.top)

\* -b
Negated(b) == IF b.kind = "nan" \/ b = Zero THEN b ELSE [b EXCEPT !.sign = -b.sign]

\* the double a - b of two doubles
FSub(a, b) == FAdd(a, Negated(b))

\* a mutant of Halve: the step is never halved
NoHalving(x) == x

\* alpha_change / 2: exact, but for the smallest double, whose half rounds
\* to 0.0
Halve(x) ==
    IF x.kind = "fin" THEN Round(x.sign, {p - 1 : p \in x.bits}, x.top - 1) ELSE x

\* alpha_change * 2: exact until it overflows to infinity
Double(x) ==
    IF x.kind = "fin" THEN Round(x.sign, {p + 1 : p \in x.bits}, x.top + 1) ELSE x

\* a < b, as Python compares two floats: False when either is NaN
Less(a, b) ==
    /\ a.kind # "nan"
    /\ b.kind # "nan"
    /\ a # b
    /\ IF a.sign # b.sign THEN a.sign = -1
       ELSE IF a.sign = 1
            THEN /\ a.kind = "fin"
                 /\ (b.kind = "inf" \/ LessBits(a, b))
            ELSE /\ b.kind = "fin"
                 /\ (a.kind = "inf" \/ LessBits(b, a))

RECURSIVE IntBits(_, _)
\* the powers of two that add up to k * 2^p, for an integer k >= 0
IntBits(k, p) ==
    IF k = 0 THEN {}
    ELSE (IF k % 2 = 1 THEN {p} ELSE {}) \cup IntBits(k \div 2, p + 1)

RECURSIVE IntTop(_)
\* the exponent of the highest power of two of an integer k >= 1
IntTop(k) == IF k < 2 THEN 0 ELSE 1 + IntTop(k \div 2)

\* float(k) for an int k of the program: exact, the ints here are small
IntFloat(k) ==
    IF k = 0 THEN Zero
    ELSE IF k > 0 THEN Fin(1, IntBits(k, 0), IntTop(k))
    ELSE Fin(-1, IntBits(-k, 0), IntTop(-k))

RECURSIVE FractionBits(_, _, _, _, _)
\* the binary digits of r / den < 1 from 2^p downwards: left significant
\* digits once the first digit is out (begun), then one bit that stands for
\* a remainder above zero
FractionBits(r, den, p, left, begun) ==
    IF r = 0 THEN {}
    ELSE IF left = 0 THEN {p}
    ELSE IF 2 * r >= den
         THEN {p} \cup FractionBits(2 * r - den, den, p - 1, left - 1, TRUE)
         ELSE FractionBits(2 * r, den, p - 1,
                           IF begun THEN left - 1 ELSE left, begun)

\* the double a decimal literal num / den >= 0 of the caller stands for
\* (0.1 is 1 / 10): the double nearest to the fraction
FromRatio(num, den) ==
    Round(1, IntBits(num \div den, 0)
               \cup FractionBits(num % den, den, -1, MantissaBits + 2, num >= den),
          31)

RECURSIVE ShiftedSum(_, _)
\* the exact sum of the magnitude T multiplied by each power of two of S
ShiftedSum(S, T) ==
    IF S = {} THEN {}
    ELSE LET k == CHOOSE q \in S : TRUE
         IN  AddBits(ShiftedSum(S \ {k}, T), {p + k : p \in T})

\* the double a * b of two doubles
FMul(a, b) ==
    IF a.kind = "nan" \/ b.kind = "nan" THEN FloatNaN
    ELSE IF a.kind = "inf" \/ b.kind = "inf"
         THEN IF a = Zero \/ b = Zero THEN FloatNaN ELSE Inf(a.sign * b.sign)
    ELSE IF a.bits = {} \/ b.bits = {} THEN Zero
    ELSE Round(a.sign * b.sign, ShiftedSum(a.bits, b.bits), a.top + b.top + 1)

\* tolerance = 0.1 unless kwargs holds one
DefaultTolerance == FromRatio(1, 10)

\* n_upper = n_selected_features + n_selected_features * tolerance
NUpper(n, tol) == FAdd(IntFloat(n), FMul(IntFloat(n), tol))

\* n_lower = n_selected_features - n_selected_features * tolerance
NLower(n, tol) == FSub(IntFloat(n), FMul(IntFloat(n), tol))

\* the options and samples of the searches of the model: n_selected_features,
\* tolerance (0, the default 0.1, and 0.58, for which n_lower is a little
\* above 21), and the number of feature columns
SearchOptions ==
    {[n |-> 1, tol |-> Zero, cols |-> 2],
     [n |-> 2, tol |-> DefaultTolerance, cols |-> 3],
     [n |-> 50, tol |-> FromRatio(58, 100), cols |-> 22]}

\* a mutant of TooMany: a count on the upper bound is taken for too many
TooManyOrOnBound(len, upper) == ~Less(IntFloat(len), upper)

\* selected_len > n_upper
TooMany(len, upper) == Less(upper, IntFloat(len))

\* selected_len < n_lower
TooFew(len, lower) == Less(IntFloat(len), lower)

\* the samples of the model, by what the fit makes of them.  The fit is a
\* function of alpha (the same arrays at every fit, random_state = 42) and
\* keeps fewer columns at a larger penalty: a sample is given by the alpha
\* below which every coefficient is non-zero and the alpha from which none
\* is, and in between all but one are
ResponseCuts ==
    {Zero, FromRatio(15, 100), FromRatio(2, 10), FromRatio(53, 100),
     FromRatio(18, 10), FromRatio(65, 10), FromRatio(75, 10), IntFloat(10),
     FromRatio(165, 10), IntFloat(50), IntFloat(60), Inf(1)}

\* len(important_features) after the fit at a finite alpha a
CountAt(a, cols, full, none) ==
    IF Less(a, full) THEN cols
    ELSE IF Less(a, none) THEN cols - 1 ELSE 0

\* the numbers of non-zero coefficients the fit at alpha a can return: the
\* count of the sample at a, and any number of columns at an alpha that is
\* not a finite number, where the source does not say what the library does
FitCounts(a, cols, full, none) ==
    IF a.kind # "fin" THEN 0..cols ELSE {CountAt(a, cols, full, none)}

\* kwargs lacks 'outcome' or holds neither 'continuous' nor 'discrete'
LassoRaise ==
    /\ l_pc = "idle"
    /\ \E o \in {"missing", "ordinal"} : outcome' = o
    /\ l_pc' = "raised"
    /\ UNCHANGED <<n_selected_features, tolerance, n_upper, n_lower, n_columns, alpha, alpha_change,
                   first_ascent, selected_len, lasso_file, resumed, full_below, none_from>>
    /\ UNCHANGED notLasso

\* lasso up to the first test of the while loop
LassoStart ==
    /\ l_pc = "idle"
    /\ \E o \in {"discrete", "continuous"}, opt \in SearchOptions,
          full \in ResponseCuts, none \in ResponseCuts :
        /\ ~Less(none, full)
        /\ full_below' = full
        /\ none_from' = none
        /\ outcome' = o
        /\ n_selected_features' = opt.n
        /\ tolerance' = opt.tol
        /\ n_upper' = NUpper(opt.n, opt.tol)
        /\ n_lower' = NLower(opt.n, opt.tol)
        /\ n_columns' = opt.cols
    /\ alpha' = One
    /\ alpha_change' = Half
    /\ first_ascent' = TRUE
    /\ selected_len' = -1
    /\ lasso_file' = FALSE
    /\ resumed' = FALSE
    /\ l_pc' = "test"
    /\ UNCHANGED notLasso

\* while selected_len < n_lower or selected_len > n_upper
LassoTest ==
    /\ l_pc = "test"
    /\ l_pc' = IF \/ TooFew(selected_len, n_lower)
                  \/ TooMany(selected_len, n_upper)
               THEN "fit" ELSE "write"
    /\ UNCHANGED <<outcome, n_selected_features, tolerance, n_upper, n_lower, n_columns, alpha,
                   alpha_change, first_ascent, selected_len, lasso_file,
                   resumed, full_below, none_from>>
    /\ UNCHANGED notLasso

\* the model is fitted at alpha and its non-zero coefficients are counted
LassoFit ==
    /\ l_pc = "fit"
    /\ \E count \in FitCounts(alpha, n_columns, full_below, none_from) :
          selected_len' = count
    /\ l_pc' = "adjust"
    /\ UNCHANGED <<outcome, n_selected_features, tolerance, n_upper, n_lower, n_columns, alpha,
                   alpha_change, first_ascent, lasso_file, resumed,
                   full_below, none_from>>
    /\ UNCHANGED notLasso

\* the if / elif at the end of the loop body, discrete (logistic) variant
AdjustDiscrete ==
    /\ l_pc = "adjust"
    /\ outcome = "discrete"
    /\ IF TooMany(selected_len, n_upper)
       THEN IF first_ascent
            THEN /\ alpha_change' = Double(alpha_change)
                 /\ alpha' = FAdd(alpha, Double(alpha_change))
                 /\ UNCHANGED first_ascent
            ELSE /\ alpha_change' = Halve(alpha_change)
                 /\ alpha' = FAdd(alpha, Halve(alpha_change))
                 /\ UNCHANGED first_ascent
       ELSE IF TooFew(selected_len, n_lower)
            THEN /\ first_ascent' = FALSE
                 /\ alpha_change' = Halve(alpha_change)
                 /\ alpha' = FSub(alpha, Halve(alpha_change))
            ELSE UNCHANGED <<alpha, alpha_change, first_ascent>>
    /\ resumed' = (resumed \/ (~first_ascent /\ TooMany(selected_len, n_upper)))
    /\ l_pc' = "test"
    /\ UNCHANGED <<outcome, n_selected_features, tolerance, n_upper, n_lower, n_columns,
                   selected_len, lasso_file, full_below, none_from>>
    /\ UNCHANGED notLasso

\* the if / elif at the end of the loop body, continuous (linear) variant
AdjustContinuous ==
    /\ l_pc = "adjust"
    /\ outcome = "continuous"
    /\ IF TooMany(selected_len, n_upper)
       THEN /\ alpha' = FAdd(alpha, alpha_change)
            /\ alpha_change' = Halve(alpha_change)
       ELSE IF TooFew(selected_len, n_lower)
            THEN /\ alpha' = FSub(alpha, alpha_change)
                 /\ alpha_change' = Halve(alpha_change)
            ELSE UNCHANGED <<alpha, alpha_change>>
    /\ l_pc' = "test"
    /\ UNCHANGED <<outcome, n_selected_features, tolerance, n_upper, n_lower, n_columns,
                   first_ascent, selected_len, lasso_file, resumed, full_below, none_from>>
    /\ UNCHANGED notLasso

\* the coefficient table is written once the loop has ended
LassoWrite ==
    /\ l_pc = "write"
    /\ lasso_file' = TRUE
    /\ l_pc' = "written"
    /\ UNCHANGED <<outcome, n_selected_features, tolerance, n_upper, n_lower, n_columns, alpha,
                   alpha_change, first_ascent, selected_len, resumed, full_below, none_from>>
    /\ UNCHANGED notLasso

\* lasso has returned or raised; the caller may call it again
LassoExit ==
    /\ l_pc \in {"written", "raised"}
    /\ l_pc' = "idle"
    /\ outcome' = "missing"
    /\ n_selected_features' = 0
    /\ tolerance' = Zero
    /\ n_upper' = Zero
    /\ n_lower' = Zero
    /\ n_columns' = 0
    /\ alpha' = Zero
    /\ alpha_change' = Zero
    /\ first_ascent' = TRUE
    /\ selected_len' = -1
    /\ lasso_file' = FALSE
    /\ resumed' = FALSE
    /\ full_below' = Zero
    /\ none_from' = Zero
    /\ UNCHANGED notLasso

LassoNext ==
    \/ LassoRaise
    \/ LassoStart
    \/ LassoTest
    \/ LassoFit
    \/ AdjustDiscrete
    \/ AdjustContinuous
    \/ LassoWrite
    \/ LassoExit

SpecLasso == Init /\ [][LassoNext]_vars

\* the selected count is above the upper bound of the band
AboveBand == Less(n_upper, IntFloat(selected_len))

\* the selected count is below the lower bound of the band
BelowBand == Less(IntFloat(selected_len), n_lower)

\* the step after the move is half the step before it (twice the new step
\* is the old one; the smallest double halves to 0.0, infinity to infinity)
StepHalved ==
    \/ FAdd(alpha_change', alpha_change') = alpha_change
    \/ alpha_change = Tiny /\ alpha_change' = Zero

\* the step after the move is twice the step before it
StepDoubled == alpha_change' = FAdd(alpha_change, alpha_change)

\* the loop leaves alpha and the step as they are and ends at its next test
BandEndsSearch ==
    /\ (l_pc = "adjust" /\ ~AboveBand /\ ~BelowBand) =>
          (alpha' = alpha /\ alpha_change' = alpha_change /\ l_pc' = "test")
    /\ (l_pc = "test" /\ ~AboveBand /\ ~BelowBand) =>
          (alpha' = alpha /\ alpha_change' = alpha_change /\ l_pc' = "write")

\* an iteration of a search that has to go on does not leave the search
\* where it was
C4_Step ==
    (l_pc = "adjust" /\ alpha.kind = "fin" /\ (AboveBand \/ BelowBand)) =>
        <<alpha', alpha_change', first_ascent'>> # <<alpha, alpha_change, first_ascent>>

\* C4: every search that has entered its loop leaves it, by writing its
\* table or by reporting non-convergence.  The count of a fit is a function
\* of alpha (the same sample, random_state = 42), so a search that leaves
\* its loop never ends an iteration that has to go on with the alpha, step
\* and first_ascent it began it with.
C4_SearchTerminates == [][C4_Step]_vars

C14_ClaimedStep ==
    /\ (l_pc = "adjust" /\ AboveBand /\ outcome = "discrete") =>
          /\ ~Less(alpha', alpha)
          /\ IF ~first_ascent /\ ~resumed THEN StepDoubled ELSE StepHalved
    /\ (l_pc = "adjust" /\ AboveBand /\ outcome = "continuous") =>
          (~Less(alpha', alpha) /\ StepHalved)
    /\ (l_pc = "adjust" /\ BelowBand) => (~Less(alpha, alpha') /\ StepHalved)
    /\ BandEndsSearch

\* C14 as claimed: above the band alpha is raised, and the logistic variant
\* doubles the step at the first rise that follows a descent and halves it
\* at every other rise; below the band alpha is lowered and the step
\* halved; the linear variant halves the step after every move; inside the
\* band the search ends with alpha and the step unchanged.
C14_TransitionsAsClaimed == [][C14_ClaimedStep]_vars

C14_AmendedStep ==
    /\ (l_pc = "adjust" /\ AboveBand /\ outcome = "discrete") =>
          /\ IF first_ascent THEN StepDoubled ELSE StepHalved
          /\ alpha' = FAdd(alpha, alpha_change')
          /\ ~Less(alpha', alpha)
          /\ first_ascent' = first_ascent
    /\ (l_pc = "adjust" /\ BelowBand /\ outcome = "discrete") =>
          /\ StepHalved
          /\ alpha' = FSub(alpha, alpha_change')
          /\ ~Less(alpha, alpha')
          /\ first_ascent' = FALSE
    /\ (l_pc = "adjust" /\ AboveBand /\ outcome = "continuous") =>
          (alpha' = FAdd(alpha, alpha_change) /\ ~Less(alpha', alpha) /\ StepHalved)
    /\ (l_pc = "adjust" /\ BelowBand /\ outcome = "continuous") =>
          (alpha' = FSub(alpha, alpha_change) /\ ~Less(alpha, alpha') /\ StepHalved)
    /\ BandEndsSearch

\* C14 as amended (the band being the doubles n_lower and n_upper of the
\* code, the sums and halves those of doubles): the logistic variant
\* doubles the step at every rise that comes before the first descent and
\* halves it at every rise after it, and
\* moves alpha by the new step; below the band it halves the step and lowers
\* alpha by the new step; the linear variant moves alpha by the step and
\* then halves the step; alpha is never moved against the direction; inside
\* the band the search ends with alpha and the step unchanged.
C14_TransitionsOfSearch == [][C14_AmendedStep]_vars

\* the logistic search doubled its step three times (0.5, 1, 2, 4; alpha 1,
\* 2, 4, 8) and then, below the band, halved it and came down to alpha 6
C14_Witness ==
    /\ outcome = "discrete"
    /\ l_pc = "test"
    /\ ~first_ascent
    /\ ~resumed
    /\ alpha = IntFloat(6)
    /\ alpha_change = Two

\* the loop of a search is running or has ended with its table
Searching == l_pc \in {"test", "fit", "adjust", "write", "written"}

\* C15 as claimed: in every iteration alpha is above 0.5 in the discrete
\* variant and inside the open interval (0, 2) in the continuous variant,
\* hence strictly positive.
C15_AlphaInsideOpenBounds ==
    Searching =>
        /\ Less(Zero, alpha)
        /\ outcome = "discrete" => Less(Half, alpha)
        /\ outcome = "continuous" => Less(alpha, Two)

\* C15 as amended: in every iteration alpha is never zero or negative.  In
\* the continuous variant it is a finite number in the interval (0, 2], 2
\* included; in the discrete variant it is at least 0.5, 0.5 included, for
\* as long as it is a finite number, and once the doubling has overflowed
\* it is infinity or not a number.
C15_AlphaPositive ==
    Searching =>
        /\ ~Less(alpha, Zero) /\ alpha # Zero
        /\ outcome = "discrete" => (alpha.kind = "fin" => ~Less(alpha, Half))
        /\ outcome = "continuous" =>
              (alpha.kind = "fin" /\ Less(Zero, alpha) /\ ~Less(Two, alpha))

\* a discrete search whose sums were rounded down to exactly 0.5 is about
\* to fit with C = 1 / alpha = 2, its step still above zero
C15_Witness ==
    /\ outcome = "discrete"
    /\ l_pc = "fit"
    /\ alpha = Half
    /\ Less(Zero, alpha_change)

(***************************************************************************)
(* FeatureSelector.frequency_mask.                                         *)
(***************************************************************************)
\* the feature columns of the dataset of a run, in column order
RunFeatures == <<"A", "B">>

\* freq_map[snp] < threshold or (total - freq_map[snp] < threshold)
Infrequent(freq, total, threshold) ==
    freq < threshold \/ total - freq < threshold

\* cols_to_drop: the keys of freq_map, in key order, that are infrequent
ColsToDrop(keys, total, threshold, freq) ==
    SelectSeq(keys, LAMBDA snp : Infrequent(freq[snp], total, threshold))

\* data.drop(columns = cols_to_drop): KeyError when a label to drop is not a
\* column of data, else the other columns in their order
Drop(columns, labels) ==
    IF Range(labels) \subseteq Range(columns)
    THEN [ok |-> TRUE,
          columns |-> SelectSeq(columns, LAMBDA c : c \notin Range(labels))]
    ELSE [ok |-> FALSE, columns |-> <<>>]

\* frequency_mask(data, threshold, freq_map) for a frame of `total` rows with
\* feature columns `columns`; keys is freq_map's key order
frequency_mask(columns, total, threshold, freq, keys) ==
    Drop(columns, ColsToDrop(keys, total, threshold, freq))

\* frequency_mask(D, t, F) on a frame whose columns are the keys of F
MaskApply ==
    /\ m_pc = "idle"
    /\ \E total \in 0..MaxCount, t \in 0..MaxCount,
          F \in [Range(RunFeatures) -> 0..MaxCount] :
        /\ m_columns' = RunFeatures
        /\ m_total' = total
        /\ m_threshold' = t
        /\ m_freq_map' = F
        /\ m_first' = frequency_mask(RunFeatures, total, t, F, RunFeatures)
    /\ m_pc' = "masked"
    /\ UNCHANGED m_second
    /\ UNCHANGED notMask

\* frequency_mask applied to its own result with the same F and t
MaskReapply ==
    /\ m_pc = "masked"
    /\ m_first.ok
    /\ m_second' = frequency_mask(m_first.columns, m_total, m_threshold,
                                  m_freq_map, RunFeatures)
    /\ m_pc' = "reapplied"
    /\ UNCHANGED <<m_columns, m_total, m_threshold, m_freq_map, m_first>>
    /\ UNCHANGED notMask

MaskExit ==
    /\ m_pc \in {"masked", "reapplied"}
    /\ m_pc' = "idle"
    /\ m_columns' = <<>>
    /\ m_total' = 0
    /\ m_threshold' = 0
    /\ m_freq_map' = <<>>
    /\ m_first' = [ok |-> TRUE, columns |-> <<>>]
    /\ m_second' = [ok |-> TRUE, columns |-> <<>>]
    /\ UNCHANGED notMask

MaskNext == MaskApply \/ MaskReapply \/ MaskExit

SpecMask == Init /\ [][MaskNext]_vars

\* C7: frequency_mask removes exactly the features f with F[f] < t or
\* |D| - F[f] < t, keeps the others, and applied again to its own result with
\* the same F and t it succeeds and returns the same columns.
C7_MaskExactAndIdempotent ==
    /\ m_pc \in {"masked", "reapplied"} =>
          /\ m_first.ok
          /\ Range(m_first.columns) =
                {f \in Range(m_columns) :
                    ~(m_freq_map[f] < m_threshold
                      \/ m_total - m_freq_map[f] < m_threshold)}
    /\ m_pc = "reapplied" =>
          /\ m_second.ok
          /\ m_second.columns = m_first.columns

(***************************************************************************)
(* The aggregation of bootstrapped_feat_select, for one feature and one    *)
(* selector name.                                                          *)
(***************************************************************************)
\* the values a score cell takes in the model
ScoreCells == {NaN, 1, 2, 3, 5, 7}

RECURSIVE SumSeq(_)
\* sum(results)
SumSeq(s) == IF s = <<>> THEN 0 ELSE s[1] + SumSeq(Tail(s))

\* s with x put before the first element that is larger
RECURSIVE InsertAsc(_, _)
InsertAsc(s, x) ==
    IF s = <<>> THEN <<x>>
    ELSE IF x <= s[1] THEN <<x>> \o s
         ELSE <<s[1]>> \o InsertAsc(Tail(s), x)

RECURSIVE SortAsc(_)
\* results.sort()
SortAsc(s) == IF s = <<>> THEN <<>> ELSE InsertAsc(SortAsc(Tail(s)), s[1])

\* results.sort(reverse = True)
SortDesc(s) == LET a == SortAsc(s) IN [i \in DOMAIN a |-> a[Len(a) + 1 - i]]

\* a mutant of SortFor: every method is sorted with the largest score first
SortAlwaysDesc(name, s) == SortDesc(s)

\* ascending for mwu, descending for every other name
SortFor(name, s) == IF name = "mwu" THEN SortAsc(s) ELSE SortDesc(s)

\* the cells that value_cell.isna() does not report, in bootstrap order
ValidScores(cells) == SelectSeq(cells, LAMBDA v : v # NaN)

\* how many cells value_cell.isna() reports: the increments of nan_<name>
NanCount(cells) == Cardinality({j \in DOMAIN cells : cells[j] = NaN})

\* results[:k_best] for k_best >= 0
FirstK(s, k) == SubSeq(s, 1, Min2(k, Len(s)))

\* sum(results[:k_best]) after the sort
TotalOfBest(name, cells, k) == SumSeq(FirstK(SortFor(name, ValidScores(cells)), k))

\* the loop over the bootstraps of one (snp, name) pair and what follows it
AggregatePair ==
    /\ a_pc = "idle"
    /\ \E name \in {"chi2", "mwu"}, n \in 1..MaxScores :
        \E cells \in [1..n -> ScoreCells], k \in 0..n :
            /\ a_name' = name
            /\ a_scores' = cells
            /\ a_k_best' = k
            /\ a_nan' = NanCount(cells)
            /\ a_total' = TotalOfBest(name, cells, k)
    /\ a_pc' = "done"
    /\ UNCHANGED notAgg

AggExit ==
    /\ a_pc = "done"
    /\ a_pc' = "idle"
    /\ a_name' = "chi2"
    /\ a_scores' = <<>>
    /\ a_k_best' = 0
    /\ a_total' = 0
    /\ a_nan' = 0
    /\ UNCHANGED notAgg

AggNext == AggregatePair \/ AggExit

SpecAgg == Init /\ [][AggNext]_vars

\* the sum of the cells at the positions P
RECURSIVE SumAt(_, _)
SumAt(cells, P) ==
    IF P = {} THEN 0
    ELSE LET j == CHOOSE x \in P : TRUE IN cells[j] + SumAt(cells, P \ {j})

\* the sets of min(k, number of valid cells) positions of valid cells
Picks(cells, k) ==
    LET V == {j \in DOMAIN cells : cells[j] # NaN}
    IN {P \in SUBSET V : Cardinality(P) = Min2(k, Cardinality(V))}

\* C6: the NaN counter is the number of missing cells, no missing cell is
\* in the sum, and the total is the sum of the k_best smallest valid scores
\* for mwu and of the k_best largest for every other method (of all of
\* them when fewer are valid); so [5, 3, NaN, 7] gives 12 and one NaN for
\* k_best = 2, and for mwu [2, 5, 1] gives 3.
C6_TotalOfBest ==
    a_pc = "done" =>
        /\ a_nan = Cardinality({j \in DOMAIN a_scores : a_scores[j] = NaN})
        /\ \E P \in Picks(a_scores, a_k_best) : a_total = SumAt(a_scores, P)
        /\ \A P \in Picks(a_scores, a_k_best) :
              IF a_name = "mwu" THEN a_total <= SumAt(a_scores, P)
              ELSE a_total >= SumAt(a_scores, P)
        /\ (a_name # "mwu" /\ a_k_best = 2 /\ a_scores = <<5, 3, NaN, 7>>) =>
              (a_total = 12 /\ a_nan = 1)
        /\ (a_name = "mwu" /\ a_k_best = 2 /\ a_scores = <<2, 5, 1>>) =>
              a_total = 3

\* the first example of the claim has been aggregated
C6_Witness ==
    /\ a_pc = "done"
    /\ a_name = "chi2"
    /\ a_k_best = 2
    /\ a_scores = <<5, 3, NaN, 7>>
    /\ a_total = 12

(***************************************************************************)
(* FeatureSelector.bootstrapped_feat_select: its inputs and helpers.       *)
(***************************************************************************)
\* the values of the column ID_1 of self.data, one row each
Subjects == <<101, 102>>

\* the feature columns of the model, one genotype code per subject: codes
\* 0, 1 and 2, with the column sums 0, 1, 2, 2 and 3
GenotypeColumns == {<<0, 0>>, <<1, 0>>, <<1, 1>>, <<2, 0>>, <<2, 1>>}

\* the datasets of the model: every feature has one of these columns
DataSets ==
    {[r \in DOMAIN Subjects |->
        [ID_1 |-> Subjects[r],
         geno |-> [f \in Range(RunFeatures) |-> c[f][r]]]] :
     c \in [Range(RunFeatures) -> GenotypeColumns]}

\* the values of freq_threshold in the model
Thresholds == {0, 1}

\* the values of n_samples other than None, and the lengths of supplied lists
SampleSizes == {1, 2}

\* kwargs as far as the selectors read them; {} is NoKwargs
NoKwargs == [outcome |-> "missing", correction |-> "fdr"]

KwargsSet == {NoKwargs,
              [outcome |-> "discrete", correction |-> "fdr"],
              [outcome |-> "missing", correction |-> "bonferroni"]}

\* the names the if / elif chain of the inner loop knows
KnownSelectors == {"chi2", "infogain", "mwu", "ttest", "mrmr", "jmi", "lasso"}

\* the values of selector_names in the model; "svm" is no selector
NameLists == {<<"chi2">>, <<"mwu">>, <<"lasso">>, <<"svm">>, <<"chi2", "lasso">>,
              <<"chi2", "svm">>, <<"infogain", "ttest">>}

RECURSIVE ColumnSum(_, _)
\* only_snp_data[col].sum(): the sum of the genotype codes of column f
ColumnSum(rows, f) ==
    IF rows = <<>> THEN 0 ELSE rows[1].geno[f] + ColumnSum(Tail(rows), f)

\* frequency_map(['ID_1', stratify_column])
frequency_map(d) == [f \in Range(RunFeatures) |-> ColumnSum(d, f)]

\* the column ID_1 of a frame, as a list
IdsOf(rows) == [r \in DOMAIN rows |-> rows[r].ID_1]

\* bootstrap(n_samples, stratify_column): the resamples with replacement
BootstrapSamples(d, ns) ==
    LET n == IF ns = None THEN Len(d) ELSE ns
    IN {[k \in 1..n |-> d[pick[k]]] : pick \in [1..n -> DOMAIN d]}

\* a mutant of get_sample_from_ids: the rows whose id is in the list, once
\* each and in the order of self.data
get_sample_isin(d, ids) == SelectSeq(d, LAMBDA row : row.ID_1 \in Range(ids))

RECURSIVE ConcatRows(_, _)
ConcatRows(d, ids) ==
    IF ids = <<>> THEN <<>>
    ELSE SelectSeq(d, LAMBDA row : row.ID_1 = ids[1]) \o ConcatRows(d, Tail(ids))

\* get_sample_from_ids(ids): for every id of the list, in its order, the rows
\* of self.data with that ID_1
get_sample_from_ids(d, ids) == ConcatRows(d, ids)

\* the supplied bootstraps of the model: id lists over the ID_1 values of
\* self.data, as the reproducibility table of a run on this dataset holds them
IdLists == UNION {[1..n -> Range(Subjects)] : n \in SampleSizes}

\* the numbers of the model for what a library computes from a column (a
\* statistic, a coefficient): not a number, zero, and two numbers above zero
LibraryScores == {NaN, 0, 1, 3}

\* what the table of a selector can hold in the score cell of a column when
\* the libraries return the numbers lib: the number returned, and for mrmr
\* and jmi 1 for a feature of the indices F the library chose, 0 for another
ReturnedScores(name, lib) == IF name \in {"mrmr", "jmi"} THEN {0, 1} ELSE lib

\* the rows of a frame whose genotype code of feature f is code
RowsOfCode(rows, f, code) == {r \in DOMAIN rows : rows[r].geno[f] = code}

\* the score cell of feature f in the table of a selector: what the library
\* returned, but for mwu and ttest NaN when zero_vector (code 0) or
\* one_vector (code 1) is empty
ScoreOf(name, rows, f, lib) ==
    IF /\ name \in {"mwu", "ttest"}
       /\ (RowsOfCode(rows, f, 0) = {} \/ RowsOfCode(rows, f, 1) = {})
    THEN NaN
    ELSE lib

\* the table a selector writes for a sample: one row per feature column;
\* lib[f] is what the library returned for feature f
ScoreFile(name, i, sample, lib) ==
    [name |-> name, boot |-> i, SNP |-> sample.columns,
     score |-> [k \in DOMAIN sample.columns |->
                   ScoreOf(name, sample.rows, sample.columns[k],
                           lib[sample.columns[k]])]]

\* a mutant of OrderMismatch: every file passes the check
OrderNeverChecked(fileSnps, snps) == FALSE

\* curr_file['SNP'].tolist() != snps
OrderMismatch(fileSnps, snps) == fileSnps # snps

\* snps: the columns of the full dataset after the mask
MaskedSnps(d, t, freq) ==
    frequency_mask(RunFeatures, Len(d), t, freq, RunFeatures).columns

\* final[<name>_<b>_score] = curr_file[<name>_score]: the cell of row idx,
\* missing when the file has no such row
Cell(file, idx) == IF idx \in DOMAIN file.score THEN file.score[idx] ELSE NaN

\* the cells <name>_0_score .. <name>_<n-1>_score of row idx of final
CellsOf(fs, name, n, idx) ==
    [b \in 1..n |->
        Cell(fs[CHOOSE k \in DOMAIN fs : fs[k].name = name /\ fs[k].boot = b - 1],
             idx)]

\* final after the loops over its rows and the selector names
FinalTable(fs, names, n, k, d, t, freq) ==
    LET snps == MaskedSnps(d, t, freq)
    IN [SNP |-> snps,
        frequency |-> [idx \in DOMAIN snps |-> freq[snps[idx]]],
        total |-> [s \in DOMAIN names |-> [idx \in DOMAIN snps |->
                      TotalOfBest(names[s], CellsOf(fs, names[s], n, idx), k)]],
        nan |-> [s \in DOMAIN names |-> [idx \in DOMAIN snps |->
                      NanCount(CellsOf(fs, names[s], n, idx))]]]

\* bootstrap_df[name] = bootstrap_export[i] raises when the lists differ in
\* length
SameLengths(lists) == \A a, b \in DOMAIN lists : Len(lists[a]) = Len(lists[b])

\* the reproducibility table: column bootstrap_<i+1> holds bootstrap_export[i]
BootstrapTable(export) ==
    [i \in DOMAIN export |-> [label |-> i, ids |-> export[i]]]

\* load_bootstraps(file): the columns of the table, in their order, as lists
load_bootstraps(table) == [c \in DOMAIN table |-> table[c].ids]

(***************************************************************************)
(* FeatureSelector.bootstrapped_feat_select: the call.                     *)
(***************************************************************************)
\* the dataset of the runs that vary the configuration
ConfigData ==
    CHOOSE d \in DataSets :
        \A f \in Range(RunFeatures) : <<d[1].geno[f], d[2].geno[f]>> = <<1, 0>>

\* runs that draw their bootstraps: every dataset, threshold and n_samples
SamplingInputs ==
    {[data |-> d, t |-> t, nb |-> nb, ns |-> ns, names |-> <<"ttest">>,
      kwargs |-> <<NoKwargs>>, k |-> None, replay |-> FALSE, bootstraps |-> <<>>,
      lib |-> LibraryScores] :
     d \in DataSets, t \in Thresholds, nb \in 1..MaxBootstraps,
     ns \in SampleSizes \cup {None}}

\* runs that replay supplied id lists
ReplayInputs ==
    {[data |-> d, t |-> t, nb |-> 1, ns |-> None, names |-> <<"ttest">>,
      kwargs |-> <<NoKwargs>>, k |-> None, replay |-> TRUE, bootstraps |-> b,
      lib |-> LibraryScores] :
     d \in DataSets, t \in Thresholds,
     b \in UNION {[1..nb -> IdLists] : nb \in 1..MaxBootstraps}}

\* runs that vary selector_names, selector_kwargs and k_best; their
\* libraries return one number for every column
ConfigInputs ==
    {[data |-> ConfigData, t |-> 0, nb |-> nb, ns |-> None, names |-> nm,
      kwargs |-> kw, k |-> k, replay |-> FALSE, bootstraps |-> <<>>,
      lib |-> {1}] :
     nb \in 1..MaxBootstraps, nm \in NameLists,
     kw \in UNION {[1..n -> KwargsSet] : n \in 1..2},
     k \in {None} \cup 0..(MaxBootstraps + 1)}

\* runs that vary what the libraries return: every number of LibraryScores
\* for every column of every table, in runs that write one or two tables
LibraryInputs ==
    {inp \in
        {[data |-> ConfigData, t |-> 0, nb |-> nb, ns |-> None, names |-> nm,
          kwargs |-> [j \in DOMAIN nm |-> NoKwargs], k |-> None,
          replay |-> FALSE, bootstraps |-> <<>>, lib |-> LibraryScores] :
         nm \in {<<"chi2">>, <<"ttest">>, <<"mrmr">>, <<"infogain", "ttest">>},
         nb \in 1..2} :
     inp.nb * Len(inp.names) <= 2}

RunInputs == SamplingInputs \cup ReplayInputs \cup ConfigInputs \cup LibraryInputs

\* n_bootstraps after `if bootstraps is not None`
Resolved_n(inp) == IF inp.replay THEN Len(inp.bootstraps) ELSE inp.nb

\* k_best after `if k_best is None`
Resolved_k(inp) == IF inp.k = None THEN Resolved_n(inp) - 1 ELSE inp.k

\* the checks at the head of bootstrapped_feat_select
ConfigError(inp) ==
    IF Len(inp.names) # Len(inp.kwargs) THEN "length"
    ELSE IF Resolved_k(inp) > Resolved_n(inp) THEN "k_best"
    ELSE "none"

TakeInputs(inp) ==
    /\ data' = inp.data
    /\ freq_threshold' = inp.t
    /\ n_bootstraps' = Resolved_n(inp)
    /\ n_samples' = inp.ns
    /\ selector_names' = inp.names
    /\ selector_kwargs' = inp.kwargs
    /\ k_best' = Resolved_k(inp)
    /\ replay' = inp.replay
    /\ bootstraps' = inp.bootstraps
    /\ library' = inp.lib

\* the call raises at one of the two checks at its head
RunStartRaise ==
    /\ r_pc = "idle"
    /\ \E inp \in RunInputs :
        /\ ConfigError(inp) # "none"
        /\ TakeInputs(inp)
        /\ error' = ConfigError(inp)
    /\ r_pc' = "raised"
    /\ UNCHANGED <<freq_map, boot_i, sel_j, this_sample, bootstrap_export, outputVars>>
    /\ UNCHANGED notRun

\* the call passes the checks and computes freq_map
RunStart ==
    /\ r_pc = "idle"
    /\ \E inp \in RunInputs :
        /\ ConfigError(inp) = "none"
        /\ TakeInputs(inp)
        /\ freq_map' = frequency_map(inp.data)
    /\ r_pc' = "sample"
    /\ UNCHANGED <<error, boot_i, sel_j, this_sample, bootstrap_export, outputVars>>
    /\ UNCHANGED notRun

\* this_sample after frequency_mask(this_sample, freq_threshold, freq_map)
Masked(rows) ==
    [rows |-> rows,
     columns |-> frequency_mask(RunFeatures, Len(rows), freq_threshold, freq_map,
                                RunFeatures).columns]

\* top of the outer loop, bootstraps given: the sample is rebuilt from ids
SampleFromIds ==
    /\ r_pc = "sample"
    /\ replay
    /\ this_sample' = Masked(get_sample_from_ids(data, bootstraps[boot_i + 1]))
    /\ bootstrap_export' = Append(bootstrap_export, bootstraps[boot_i + 1])
    /\ sel_j' = 0
    /\ r_pc' = "select"
    /\ UNCHANGED <<error, inputVars, boot_i, outputVars>>
    /\ UNCHANGED notRun

\* top of the outer loop, no bootstraps given: the sample is drawn
SampleDrawn ==
    /\ r_pc = "sample"
    /\ ~replay
    /\ \E rows \in BootstrapSamples(data, n_samples) :
        /\ this_sample' = Masked(rows)
        /\ bootstrap_export' = Append(bootstrap_export, IdsOf(rows))
    /\ sel_j' = 0
    /\ r_pc' = "select"
    /\ UNCHANGED <<error, inputVars, boot_i, outputVars>>
    /\ UNCHANGED notRun

\* the inner and outer loop counters after a selector has returned
Advance ==
    IF sel_j + 1 < Len(selector_names)
    THEN /\ sel_j' = sel_j + 1
         /\ r_pc' = "select"
         /\ UNCHANGED boot_i
    ELSE /\ sel_j' = 0
         /\ boot_i' = boot_i + 1
         /\ r_pc' = IF boot_i + 1 < n_bootstraps THEN "sample" ELSE "aggregate"

\* lasso raises for kwargs without a usable 'outcome'
LassoOptionMissing(name, kw) ==
    name = "lasso" /\ kw.outcome \notin {"continuous", "discrete"}

\* the while loop of lasso can end on a sample of cols feature columns:
\* some count the fit can return is inside the band
SearchCanEnd(cols, n, tol) ==
    \E count \in 0..cols :
        ~TooFew(count, NLower(n, tol)) /\ ~TooMany(count, NUpper(n, tol))

\* lasso never returns: kwargs of the model hold no n_selected_features and
\* no tolerance, and no count of the sample is in the band of the defaults
LassoNeverReturns(name, kw, sample) ==
    /\ name = "lasso"
    /\ ~LassoOptionMissing(name, kw)
    /\ ~SearchCanEnd(Len(sample.columns), DefaultTarget, DefaultTolerance)

\* top of a pass of the inner loop: the selector folder is made unless it
\* exists, and the selector is called
MakeFolder ==
    /\ r_pc = "select"
    /\ folders' = folders \cup {selector_names[sel_j + 1]}
    /\ r_pc' = "call"
    /\ UNCHANGED <<error, inputVars, boot_i, sel_j, this_sample, bootstrap_export,
                   files, final, final_written, bootstraps_file, bootstraps_written>>
    /\ UNCHANGED notRun

\* the selector returns, its table written, and filenames.append(filename)
SelectorWrites ==
    /\ r_pc = "call"
    /\ LET name == selector_names[sel_j + 1]
           kw == selector_kwargs[sel_j + 1]
       IN /\ name \in KnownSelectors
          /\ ~LassoOptionMissing(name, kw)
          /\ ~LassoNeverReturns(name, kw, this_sample)
          /\ ~UsesUndefinedName(name, kw.correction)
          /\ \E lib \in [Range(this_sample.columns) ->
                           ReturnedScores(name, library)] :
                files' = Append(files, ScoreFile(name, boot_i, this_sample, lib))
    /\ Advance
    /\ UNCHANGED <<error, inputVars, this_sample, bootstrap_export, folders, final,
                   final_written, bootstraps_file, bootstraps_written>>
    /\ UNCHANGED notRun

\* the pass ends in an exception: the else branch of the chain, lasso's
\* check of kwargs, the undefined name of mann_whitney_u, or a worker task
\* of a dispatcher that raised
SelectorRaises ==
    /\ r_pc = "call"
    /\ LET name == selector_names[sel_j + 1]
           kw == selector_kwargs[sel_j + 1]
       IN \/ name \notin KnownSelectors /\ error' = "unknown_method"
          \/ LassoOptionMissing(name, kw) /\ error' = "missing_option"
          \/ /\ name \in KnownSelectors
             /\ UsesUndefinedName(name, kw.correction)
             /\ error' = "name_error"
          \/ name \in UnivariateMethods /\ error' = "task_error"
    /\ r_pc' = "raised"
    /\ UNCHANGED <<inputVars, boot_i, sel_j, this_sample, bootstrap_export, folders,
                   files, final, final_written, bootstraps_file, bootstraps_written>>
    /\ UNCHANGED notRun

\* the loop over filenames meets a file whose SNP column is not snps
AggregateRaises ==
    /\ r_pc = "aggregate"
    /\ \E k \in DOMAIN files :
          OrderMismatch(files[k].SNP, MaskedSnps(data, freq_threshold, freq_map))
    /\ error' = "order"
    /\ r_pc' = "raised"
    /\ UNCHANGED <<inputVars, boot_i, sel_j, this_sample, bootstrap_export, outputVars>>
    /\ UNCHANGED notRun

\* every file passes the check; the totals and NaN counts are computed
Aggregate ==
    /\ r_pc = "aggregate"
    /\ \A k \in DOMAIN files :
          ~OrderMismatch(files[k].SNP, MaskedSnps(data, freq_threshold, freq_map))
    /\ final' = FinalTable(files, selector_names, n_bootstraps, k_best, data,
                           freq_threshold, freq_map)
    /\ r_pc' = "write_final"
    /\ UNCHANGED <<error, inputVars, boot_i, sel_j, this_sample, bootstrap_export,
                   folders, files, final_written, bootstraps_file, bootstraps_written>>
    /\ UNCHANGED notRun

\* final.to_csv
WriteFinal ==
    /\ r_pc = "write_final"
    /\ final_written' = TRUE
    /\ r_pc' = "export"
    /\ UNCHANGED <<error, inputVars, boot_i, sel_j, this_sample, bootstrap_export,
                   folders, files, final, bootstraps_file, bootstraps_written>>
    /\ UNCHANGED notRun

\* bootstrap_df is filled and written
Export ==
    /\ r_pc = "export"
    /\ SameLengths(bootstrap_export)
    /\ bootstraps_file' = BootstrapTable(bootstrap_export)
    /\ bootstraps_written' = TRUE
    /\ r_pc' = "done"
    /\ UNCHANGED <<error, inputVars, boot_i, sel_j, this_sample, bootstrap_export,
                   folders, files, final, final_written>>
    /\ UNCHANGED notRun

\* bootstrap_df[name] = bootstrap_export[i] raises ValueError
ExportRaises ==
    /\ r_pc = "export"
    /\ ~SameLengths(bootstrap_export)
    /\ error' = "export"
    /\ r_pc' = "raised"
    /\ UNCHANGED <<inputVars, boot_i, sel_j, this_sample, bootstrap_export, outputVars>>
    /\ UNCHANGED notRun

\* the call has returned or raised; the next call starts on a fresh out_name
RunExit ==
    /\ r_pc \in {"done", "raised"}
    /\ r_pc' = "idle"
    /\ error' = "none"
    /\ data' = <<>>
    /\ freq_threshold' = 0
    /\ n_bootstraps' = 0
    /\ n_samples' = None
    /\ selector_names' = <<>>
    /\ selector_kwargs' = <<>>
    /\ k_best' = None
    /\ replay' = FALSE
    /\ bootstraps' = <<>>
    /\ library' = {}
    /\ freq_map' = <<>>
    /\ boot_i' = 0
    /\ sel_j' = 0
    /\ this_sample' = [rows |-> <<>>, columns |-> <<>>]
    /\ bootstrap_export' = <<>>
    /\ folders' = {}
    /\ files' = <<>>
    /\ final' = EmptyFinal
    /\ final_written' = FALSE
    /\ bootstraps_file' = <<>>
    /\ bootstraps_written' = FALSE
    /\ UNCHANGED notRun

RunNext ==
    \/ RunStartRaise
    \/ RunStart
    \/ SampleFromIds
    \/ SampleDrawn
    \/ MakeFolder
    \/ SelectorWrites
    \/ SelectorRaises
    \/ AggregateRaises
    \/ Aggregate
    \/ WriteFinal
    \/ Export
    \/ ExportRaises
    \/ RunExit

SpecRun == Init /\ [][RunNext]_vars

\* the configuration errors of a call
ConfigErrors == {"length", "k_best", "unknown_method", "missing_option"}

\* C5: a call that failed with a configuration error has made no selector
\* folder and written no score file, no final table and no reproducibility
\* table.
C5_ConfigErrorWritesNothing ==
    (r_pc = "raised" /\ error \in ConfigErrors) =>
        /\ folders = {}
        /\ files = <<>>
        /\ ~final_written
        /\ ~bootstraps_written

\* the features of the full dataset that the frequencies of the full dataset
\* and the threshold keep, in column order
FullDatasetMask ==
    SelectSeq(RunFeatures,
              LAMBDA f : ~(\/ freq_map[f] < freq_threshold
                           \/ Len(data) - freq_map[f] < freq_threshold))

\* C8: in every bootstrap iteration the features scored are those the
\* full-dataset frequencies and the threshold keep, whatever the size and
\* composition of the sample, and they are the features of the aggregator.
C8_ScoredFeaturesStable ==
    /\ r_pc = "select" => this_sample.columns = FullDatasetMask
    /\ \A k \in DOMAIN files : files[k].SNP = FullDatasetMask
    /\ r_pc \in {"write_final", "export", "done"} => final.SNP = FullDatasetMask

\* C9: in a replayed run the sample of bootstrap i has the supplied id list
\* i as its ID_1 column, the list exported for it is the supplied list, and
\* the written reproducibility table loads back as the supplied lists; in a
\* drawn run the exported list is the ID_1 column of the sample.
C9_ReplayIsIdentity ==
    /\ (replay /\ r_pc = "select") =>
          IdsOf(this_sample.rows) = bootstraps[boot_i + 1]
    /\ replay =>
          \A i \in DOMAIN bootstrap_export : bootstrap_export[i] = bootstraps[i]
    /\ (replay /\ bootstraps_written) => load_bootstraps(bootstraps_file) = bootstraps
    /\ (~replay /\ r_pc = "select") =>
          bootstrap_export[boot_i + 1] = IdsOf(this_sample.rows)

\* a replayed run with an id repeated in a list has written its
\* reproducibility table
C9_Witness ==
    /\ replay
    /\ bootstraps_written
    /\ bootstraps = <<<<102, 102>>, <<101, 102>>>>
    /\ load_bootstraps(bootstraps_file) = bootstraps

\* some score file lists other features than the aggregator's snps
SomeFileMismatches ==
    \E k \in DOMAIN files :
        files[k].SNP # frequency_mask(RunFeatures, Len(data), freq_threshold,
                                      freq_map, RunFeatures).columns

C10_Inv ==
    /\ (r_pc \in {"write_final", "export", "done"} \/ final # EmptyFinal
        \/ final_written \/ bootstraps_written) => ~SomeFileMismatches
    /\ error = "order" =>
          /\ SomeFileMismatches
          /\ final = EmptyFinal
          /\ ~final_written
          /\ ~bootstraps_written

C10_Step ==
    (r_pc = "aggregate" /\ SomeFileMismatches) => (r_pc' = "raised" /\ error' = "order")

\* C10: when a score file lists its features in another sequence than the
\* masked feature list, aggregation raises; no total is computed from the
\* file and neither the final table nor the reproducibility table is
\* written.
C10_MismatchAborts == []C10_Inv /\ [][C10_Step]_vars

\* aggregation raised on the second file after the first had passed
C10_Witness ==
    /\ r_pc = "raised"
    /\ error = "order"
    /\ Len(files) = 2
    /\ files[1].SNP = MaskedSnps(data, freq_threshold, freq_map)
    /\ files[2].SNP # MaskedSnps(data, freq_threshold, freq_map)

\* the frequency of feature f in the full dataset as the glossary has it:
\* the number of subjects with a non-reference genotype
FullFrequency(f) == Cardinality({r \in DOMAIN data : data[r].geno[f] # 0})

\* final has been computed
FinalBuilt == r_pc \in {"write_final", "export", "done"}

\* C13: the final table has one row for every feature column of the
\* dataset, the features the frequency filter masks included, each with
\* its frequency in the full dataset.
C13_RowForEveryFeature ==
    FinalBuilt =>
        /\ final.SNP = RunFeatures
        /\ \A idx \in DOMAIN final.SNP :
              final.frequency[idx] = FullFrequency(final.SNP[idx])

====
